---- MODULE Spec2Model ----
(***************************************************************************)
(* Model of the OCR benchmark core: the metric functions of                *)
(* ocr_benchmark/metrics.py and the orchestration of                       *)
(* ocr_benchmark/evaluator.py (BenchmarkRunner).                           *)
(*                                                                         *)
(* Text is a sequence of characters, each character a one-element string.  *)
(* A Python float is an exact rational [kind |-> "float", n, d] in lowest  *)
(* terms (IEEE rounding is not modelled), math.nan is [kind |-> "nan"] and *)
(* None is [kind |-> "none"].                                              *)
(***************************************************************************)
EXTENDS Integers, Sequences, FiniteSets, Bags, TLC

\* ------------------------------------------------------------------------
\* Bounds of the model
\* ------------------------------------------------------------------------
MaxRefLen == 3
MaxHypLen == 3
MaxSamples == 2
MaxExtractors == 2
MaxSeqLen == 4

\* ------------------------------------------------------------------------
\* Floats as exact rationals
\* ------------------------------------------------------------------------
RECURSIVE GCD(_, _)
GCD(a, b) ==
    IF b = 0 THEN a ELSE GCD(b, a % b)

Abs(x) ==
    IF x < 0 THEN -x ELSE x

\* the float n / d, d # 0
Rat(n, d) ==
    LET g == GCD(Abs(n), Abs(d))
        s == IF d < 0 THEN -1 ELSE 1
    IN  [kind |-> "float", n |-> (s * n) \div g, d |-> (s * d) \div g]

NaN ==
    [kind |-> "nan"]

None ==
    [kind |-> "none"]

Zero ==
    Rat(0, 1)

One ==
    Rat(1, 1)

IsFloat(x) ==
    x.kind = "float"

FAdd(x, y) ==
    Rat(x.n * y.d + y.n * x.d, x.d * y.d)

FMul(x, y) ==
    Rat(x.n * y.n, x.d * y.d)

\* x / y for floats, y # 0
FDiv(x, y) ==
    Rat(x.n * y.d, x.d * y.n)

FLeq(x, y) ==
    x.n * y.d <= y.n * x.d

\* sum(values) of a list of floats
RECURSIVE FSum(_)
FSum(values) ==
    IF values = <<>> THEN Zero ELSE FAdd(Head(values), FSum(Tail(values)))

\* ------------------------------------------------------------------------
\* metrics.py: normalize_text
\* ------------------------------------------------------------------------
\* The characters of the model: two lowercase letters, an uppercase letter,
\* the ASCII space and the no-break space U+00A0 (written "NBSP").
Alphabet ==
    {"a", "b", "A", " ", "NBSP"}

\* unicodedata.normalize("NFKC", c) of one character: U+00A0 has the
\* compatibility decomposition <noBreak> U+0020, ASCII is unchanged.
NFKCChar(c) ==
    IF c = "NBSP" THEN <<" ">> ELSE <<c>>

RECURSIVE NFKC(_)
NFKC(text) ==
    IF text = <<>> THEN <<>> ELSE NFKCChar(Head(text)) \o NFKC(Tail(text))

LowerChar(c) ==
    IF c = "A" THEN "a" ELSE c

Lower(text) ==
    [i \in 1..Len(text) |-> LowerChar(text[i])]

\* a character matched by \s
IsSpace(c) ==
    c \in {" ", "NBSP"}

RECURSIVE DropSpaces(_)
DropSpaces(text) ==
    IF text # <<>> /\ IsSpace(Head(text)) THEN DropSpaces(Tail(text)) ELSE text

\* _WHITESPACE_RE.sub(" ", text): every maximal run of whitespace becomes " "
RECURSIVE WhitespaceSub(_)
WhitespaceSub(text) ==
    IF text = <<>> THEN <<>>
    ELSE IF IsSpace(Head(text)) THEN <<" ">> \o WhitespaceSub(DropSpaces(Tail(text)))
    ELSE <<Head(text)>> \o WhitespaceSub(Tail(text))

RECURSIVE RStrip(_)
RStrip(text) ==
    IF text # <<>> /\ IsSpace(text[Len(text)])
    THEN RStrip(SubSeq(text, 1, Len(text) - 1))
    ELSE text

Strip(text) ==
    RStrip(DropSpaces(text))

normalize_text(text) ==
    Strip(WhitespaceSub(Lower(NFKC(text))))

\* str.split(): the maximal runs of non-whitespace characters, in order
RECURSIVE SplitAcc(_, _)
SplitAcc(text, word) ==
    IF text = <<>> THEN (IF word = <<>> THEN <<>> ELSE <<word>>)
    ELSE IF IsSpace(Head(text))
         THEN (IF word = <<>> THEN <<>> ELSE <<word>>) \o SplitAcc(Tail(text), <<>>)
         ELSE SplitAcc(Tail(text), Append(word, Head(text)))

Split(text) ==
    SplitAcc(text, <<>>)

_to_char_sequence(text) ==
    text

_to_word_sequence(text) ==
    Split(normalize_text(text))

\* ------------------------------------------------------------------------
\* metrics.py: _levenshtein_distance
\* ------------------------------------------------------------------------
Min2(a, b) ==
    IF a <= b THEN a ELSE b

Min3(a, b, c) ==
    Min2(a, Min2(b, c))

\* the inner loop reading the deletion cost one column to the left:
\* previous_row[j - 1] + 1 instead of previous_row[j] + 1
RECURSIVE InnerLoop_delete_index(_, _, _, _)
InnerLoop_delete_index(current_row, previous_row, ref_item, hypothesis) ==
    IF Len(current_row) = Len(hypothesis) + 1 THEN current_row
    ELSE LET j == Len(current_row)
             hyp_item == hypothesis[j]
             insert_cost == current_row[j] + 1
             delete_cost == previous_row[j] + 1
             replace_cost == previous_row[j] + (IF ref_item = hyp_item THEN 0 ELSE 1)
         IN  InnerLoop_delete_index(
                 Append(current_row, Min3(insert_cost, delete_cost, replace_cost)),
                 previous_row, ref_item, hypothesis)

\* the inner loop over hypothesis: current_row grows from [previous_row[0] + 1]
\* to len(hypothesis) + 1 entries (Python index j is TLA+ index j + 1)
RECURSIVE InnerLoop(_, _, _, _)
InnerLoop(current_row, previous_row, ref_item, hypothesis) ==
    IF Len(current_row) = Len(hypothesis) + 1 THEN current_row
    ELSE LET j == Len(current_row)
             hyp_item == hypothesis[j]
             insert_cost == current_row[j] + 1
             delete_cost == previous_row[j + 1] + 1
             replace_cost == previous_row[j] + (IF ref_item = hyp_item THEN 0 ELSE 1)
         IN  InnerLoop(Append(current_row, Min3(insert_cost, delete_cost, replace_cost)),
                       previous_row, ref_item, hypothesis)

\* the outer loop over reference, from its i-th item on
RECURSIVE OuterLoop(_, _, _, _)
OuterLoop(previous_row, reference, i, hypothesis) ==
    IF i > Len(reference) THEN previous_row
    ELSE OuterLoop(InnerLoop(<<previous_row[1] + 1>>, previous_row, reference[i], hypothesis),
                   reference, i + 1, hypothesis)

\* _levenshtein_distance whose empty-reference fast path returns the length
\* of the reference: return len(reference)
_levenshtein_distance_wrong_length(reference, hypothesis) ==
    IF reference = hypothesis THEN 0
    ELSE IF reference = <<>> THEN Len(reference)
    ELSE IF hypothesis = <<>> THEN Len(reference)
    ELSE LET previous_row == [j \in 1..(Len(hypothesis) + 1) |-> j - 1]
             last_row == OuterLoop(previous_row, reference, 1, hypothesis)
         IN  last_row[Len(last_row)]

_levenshtein_distance(reference, hypothesis) ==
    IF reference = hypothesis THEN 0
    ELSE IF reference = <<>> THEN Len(hypothesis)
    ELSE IF hypothesis = <<>> THEN Len(reference)
    ELSE LET previous_row == [j \in 1..(Len(hypothesis) + 1) |-> j - 1]
             last_row == OuterLoop(previous_row, reference, 1, hypothesis)
         IN  last_row[Len(last_row)]

\* ------------------------------------------------------------------------
\* metrics.py: the six metrics
\* ------------------------------------------------------------------------
\* character_error_rate dividing by the hypothesis length
character_error_rate_by_hypothesis(reference, hypothesis) ==
    LET ref_chars == _to_char_sequence(normalize_text(reference))
        hyp_chars == _to_char_sequence(normalize_text(hypothesis))
    IN  IF ref_chars = <<>> THEN (IF hyp_chars = <<>> THEN Zero ELSE One)
        ELSE Rat(_levenshtein_distance(ref_chars, hyp_chars),
                 Len(hyp_chars))

character_error_rate(reference, hypothesis) ==
    LET ref_chars == _to_char_sequence(normalize_text(reference))
        hyp_chars == _to_char_sequence(normalize_text(hypothesis))
    IN  IF ref_chars = <<>> THEN (IF hyp_chars = <<>> THEN Zero ELSE One)
        ELSE Rat(_levenshtein_distance(ref_chars, hyp_chars),
                 Len(ref_chars))

word_error_rate(reference, hypothesis) ==
    LET ref_tokens == _to_word_sequence(reference)
        hyp_tokens == _to_word_sequence(hypothesis)
    IN  IF ref_tokens = <<>> THEN (IF hyp_tokens = <<>> THEN Zero ELSE One)
        ELSE Rat(_levenshtein_distance(ref_tokens, hyp_tokens), Len(ref_tokens))

\* collections.Counter(tokens): token -> number of occurrences
Counter(tokens) ==
    [t \in {tokens[i] : i \in 1..Len(tokens)} |->
        Cardinality({i \in 1..Len(tokens) : tokens[i] = t})]

\* the shared token types, each counted once: set(ref) & set(hyp)
CounterAnd_types(c1, c2) ==
    [t \in DOMAIN c1 \cap DOMAIN c2 |-> 1]

\* Counter & Counter: the minimum of the counts, over the keys of both
CounterAnd(c1, c2) ==
    [t \in DOMAIN c1 \cap DOMAIN c2 |-> Min2(c1[t], c2[t])]

\* sum(counter.values())
RECURSIVE SumValuesOver(_, _)
SumValuesOver(c, keys) ==
    IF keys = {} THEN 0
    ELSE LET k == CHOOSE x \in keys : TRUE
         IN  c[k] + SumValuesOver(c, keys \ {k})

SumValues(c) ==
    SumValuesOver(c, DOMAIN c)

\* token_precision_recall_f1 without the factor 2 of the harmonic mean
token_precision_recall_f1_halved(reference, hypothesis) ==
    LET ref_tokens == _to_word_sequence(reference)
        hyp_tokens == _to_word_sequence(hypothesis)
        ref_counter == Counter(ref_tokens)
        hyp_counter == Counter(hyp_tokens)
        overlap == SumValues(CounterAnd(ref_counter, hyp_counter))
        ref_total == SumValues(ref_counter)
        hyp_total == SumValues(hyp_counter)
        precision == IF hyp_total # 0 THEN Rat(overlap, hyp_total) ELSE Zero
        recall == IF ref_total # 0 THEN Rat(overlap, ref_total) ELSE Zero
        f1 == IF FAdd(precision, recall) = Zero THEN Zero
              ELSE FDiv(FMul(precision, recall), FAdd(precision, recall))
    IN  <<precision, recall, f1>>

token_precision_recall_f1(reference, hypothesis) ==
    LET ref_tokens == _to_word_sequence(reference)
        hyp_tokens == _to_word_sequence(hypothesis)
        ref_counter == Counter(ref_tokens)
        hyp_counter == Counter(hyp_tokens)
        overlap == SumValues(CounterAnd(ref_counter, hyp_counter))
        ref_total == SumValues(ref_counter)
        hyp_total == SumValues(hyp_counter)
        precision == IF hyp_total # 0 THEN Rat(overlap, hyp_total) ELSE Zero
        recall == IF ref_total # 0 THEN Rat(overlap, ref_total) ELSE Zero
        f1 == IF FAdd(precision, recall) = Zero THEN Zero
              ELSE FDiv(FMul(FMul(Rat(2, 1), precision), recall), FAdd(precision, recall))
    IN  <<precision, recall, f1>>

\* exact_match comparing the texts as given, without normalize_text
exact_match_raw(reference, hypothesis) ==
    IF reference = hypothesis THEN One ELSE Zero

exact_match(reference, hypothesis) ==
    IF normalize_text(reference) = normalize_text(hypothesis) THEN One ELSE Zero

MetricKeys ==
    {"character_error_rate", "word_error_rate", "token_precision",
     "token_recall", "token_f1", "exact_match"}

compute_metrics(reference, hypothesis) ==
    LET cer == character_error_rate(reference, hypothesis)
        wer == word_error_rate(reference, hypothesis)
        prf == token_precision_recall_f1(reference, hypothesis)
        em == exact_match(reference, hypothesis)
    IN  [character_error_rate |-> cer,
         word_error_rate |-> wer,
         token_precision |-> prf[1],
         token_recall |-> prf[2],
         token_f1 |-> prf[3],
         exact_match |-> em]

\* ------------------------------------------------------------------------
\* metrics.py: aggregation helpers
\* ------------------------------------------------------------------------
\* aggregate_confidences filtering by truthiness: "if c" drops 0.0 as well
aggregate_confidences_truthy(confs) ==
    LET filtered == SelectSeq(confs, LAMBDA c : c # None /\ c # Zero)
    IN  IF filtered = <<>> THEN None
        ELSE FDiv(FSum(filtered), Rat(Len(filtered), 1))

aggregate_confidences(confs) ==
    LET filtered == SelectSeq(confs, LAMBDA c : c # None)
    IN  IF filtered = <<>> THEN None
        ELSE FDiv(FSum(filtered), Rat(Len(filtered), 1))

safe_mean(values) ==
    IF values = <<>> THEN NaN
    ELSE FDiv(FSum(values), Rat(Len(values), 1))

\* ------------------------------------------------------------------------
\* State
\* ------------------------------------------------------------------------
VARIABLES
    reference,          \* compute_metrics: the reference text
    hypothesis,         \* compute_metrics: the hypothesis text
    mpc,                \* compute_metrics: "input", "done" ("off" under Spec)
    metrics_out,        \* compute_metrics: the returned mapping
    samples,            \* BenchmarkRunner.samples
    extractors,         \* run: the names of the extractors passed in, in order
    pc,                 \* run: position of the single control flow
    ei,                 \* run: index of the extractor of the for loop
    si,                 \* evaluate_method: index of the sample of the for loop
    sample_reports,     \* evaluate_method: local list
    metric_accumulator, \* evaluate_method: local dict, key -> list of values
    confidences,        \* evaluate_method: local list
    latencies,          \* evaluate_method: local list
    methods,            \* run: local dict, extractor name -> MethodEvaluation
    report,             \* the BenchmarkReport run returned, None before
    calls,              \* log of the calls made on the extractors
    evaluations,        \* log of the MethodEvaluations evaluate_method returned
    seq_a,              \* _levenshtein_distance: a first sequence
    seq_b,              \* _levenshtein_distance: a second sequence
    seq_c,              \* _levenshtein_distance: a third sequence
    dpc,                \* _levenshtein_distance: "input", "done" ("off" elsewhere)
    distances           \* _levenshtein_distance: the values returned

metricVars ==
    <<reference, hypothesis, mpc, metrics_out>>

runnerVars ==
    <<samples, extractors, pc, ei, si, sample_reports, metric_accumulator,
      confidences, latencies, methods, report, calls, evaluations>>

distVars ==
    <<seq_a, seq_b, seq_c, dpc, distances>>

vars ==
    <<reference, hypothesis, mpc, metrics_out, samples, extractors, pc, ei, si,
      sample_reports, metric_accumulator, confidences, latencies, methods,
      report, calls, evaluations, seq_a, seq_b, seq_c, dpc, distances>>

\* all sequences over S of length at most n
SeqsUpTo(S, n) ==
    UNION {[1..k -> S] : k \in 0..n}

\* ------------------------------------------------------------------------
\* Inputs of the runner
\* ------------------------------------------------------------------------
\* The i-th sample of the loaded manifest (data_loader.DocumentSample): the
\* ids are not in sorted order and the ground truths alternate.
DocumentSample(i) ==
    [id |-> IF i % 2 = 1 THEN i + 1 ELSE i - 1,
     ground_truth |-> IF i % 2 = 1 THEN <<"a", " ", "b">> ELSE <<"b">>]

\* data_loader.limit_samples(samples, limit) for 0 <= limit
limit_samples(manifest, limit) ==
    IF limit >= Len(manifest) THEN manifest ELSE SubSeq(manifest, 1, limit)

Manifest ==
    [i \in 1..MaxSamples |-> DocumentSample(i)]

ExtractorNames ==
    {"plaintext", "textract"}

\* What one timed call of extractor.run can return: the OcrResult (text,
\* confidence) and the latency measured around the call.
Outcomes ==
    {[text |-> <<"A", " ", " ", "b">>, confidence |-> None, latency |-> Rat(1, 1)],
     [text |-> <<"b">>, confidence |-> Zero, latency |-> Rat(2, 1)],
     [text |-> <<"b", " ", "a">>, confidence |-> One, latency |-> Rat(1, 2)]}

\* ------------------------------------------------------------------------
\* evaluator.py: BenchmarkRunner
\* ------------------------------------------------------------------------
\* SampleEvaluation with the prediction stored as the ground truth
SampleEvaluation_swapped(sample, result, latency, metrics) ==
    [sample_id |-> sample.id,
     prediction |-> result.text,
     ground_truth |-> result.text,
     metrics |-> metrics,
     confidence |-> result.confidence,
     latency_seconds |-> latency]

SampleEvaluation(sample, result, latency, metrics) ==
    [sample_id |-> sample.id,
     prediction |-> result.text,
     ground_truth |-> sample.ground_truth,
     metrics |-> metrics,
     confidence |-> result.confidence,
     latency_seconds |-> latency]

MethodEvaluation(name, aggregated, avg_confidence, avg_latency, reports) ==
    [method_name |-> name,
     aggregated_metrics |-> aggregated,
     average_confidence |-> avg_confidence,
     average_latency_seconds |-> avg_latency,
     samples |-> reports]

BenchmarkReport(size, ms) ==
    [dataset_size |-> size, methods |-> ms]

\* metric_accumulator.setdefault(key, []).append(value) for every key of metrics
Accumulate(acc, metrics) ==
    [key \in DOMAIN acc \cup DOMAIN metrics |->
        IF key \in DOMAIN metrics
        THEN (IF key \in DOMAIN acc THEN Append(acc[key], metrics[key])
              ELSE <<metrics[key]>>)
        ELSE acc[key]]

\* methods.setdefault(name, evaluation): an earlier entry is kept
DictSet_keep_first(d, name, evaluation) ==
    [k \in DOMAIN d \cup {name} |-> IF k \in DOMAIN d THEN d[k] ELSE evaluation]

\* methods[name] = evaluation
DictSet(d, name, evaluation) ==
    [k \in DOMAIN d \cup {name} |-> IF k = name THEN evaluation ELSE d[k]]

CallEvent(op, e, s, ok) ==
    [op |-> op, e |-> e, s |-> s, ok |-> ok]

\* evaluate_method whose loop starts at the second sample
EnterEvaluateMethod_skip_first ==
    /\ pc = "run_loop"
    /\ ei <= Len(extractors)
    /\ pc' = "eval_loop"
    /\ si' = 2
    /\ sample_reports' = <<>>
    /\ metric_accumulator' = <<>>
    /\ confidences' = <<>>
    /\ latencies' = <<>>
    /\ UNCHANGED <<samples, extractors, ei, methods, report, calls, evaluations>>
    /\ UNCHANGED <<reference, hypothesis, mpc, metrics_out>>
    /\ UNCHANGED distVars

\* run: the for loop takes the next extractor and enters evaluate_method
EnterEvaluateMethod ==
    /\ pc = "run_loop"
    /\ ei <= Len(extractors)
    /\ pc' = "eval_loop"
    /\ si' = 1
    /\ sample_reports' = <<>>
    /\ metric_accumulator' = <<>>
    /\ confidences' = <<>>
    /\ latencies' = <<>>
    /\ UNCHANGED <<samples, extractors, ei, methods, report, calls, evaluations>>
    /\ UNCHANGED metricVars
    /\ UNCHANGED distVars

\* evaluate_method: one iteration of the loop over the samples, extractor.run
\* returning outcome o
SampleStep(o) ==
    /\ pc = "eval_loop"
    /\ si <= Len(samples)
    /\ LET sample == samples[si]
           metrics == compute_metrics(sample.ground_truth, o.text)
       IN  /\ metric_accumulator' = Accumulate(metric_accumulator, metrics)
           /\ sample_reports' =
                  Append(sample_reports, SampleEvaluation(sample, o, o.latency, metrics))
           /\ confidences' = Append(confidences, o.confidence)
           /\ latencies' = Append(latencies, o.latency)
    /\ calls' = Append(calls, CallEvent("run", ei, si, TRUE))
    /\ si' = si + 1
    /\ UNCHANGED <<samples, extractors, pc, ei, methods, report, evaluations>>
    /\ UNCHANGED metricVars
    /\ UNCHANGED distVars

\* extractor.run raises and the loop swallows it: except Exception: continue
SampleStepRaises_swallowed ==
    /\ pc = "eval_loop"
    /\ si <= Len(samples)
    /\ calls' = Append(calls, CallEvent("run", ei, si, FALSE))
    /\ si' = si + 1
    /\ UNCHANGED <<samples, extractors, pc, ei, sample_reports, metric_accumulator,
                   confidences, latencies, methods, report, evaluations>>
    /\ UNCHANGED <<reference, hypothesis, mpc, metrics_out>>
    /\ UNCHANGED distVars

\* evaluate_method: extractor.run raises; nothing catches it, so it leaves
\* evaluate_method and run
SampleStepRaises ==
    /\ pc = "eval_loop"
    /\ si <= Len(samples)
    /\ calls' = Append(calls, CallEvent("run", ei, si, FALSE))
    /\ pc' = "raised"
    /\ UNCHANGED <<samples, extractors, ei, si, sample_reports, metric_accumulator,
                   confidences, latencies, methods, report, evaluations>>
    /\ UNCHANGED metricVars
    /\ UNCHANGED distVars

\* evaluate_method after the loop: aggregate and return; run stores the result
\* under the extractor's name
ReturnEvaluation ==
    /\ pc = "eval_loop"
    /\ si > Len(samples)
    /\ LET aggregated == [metric \in DOMAIN metric_accumulator |->
                              safe_mean(metric_accumulator[metric])]
           avg_confidence == aggregate_confidences(confidences)
           avg_latency == safe_mean(latencies)
           evaluation == MethodEvaluation(extractors[ei], aggregated, avg_confidence,
                                          avg_latency, sample_reports)
       IN  /\ methods' = DictSet(methods, extractors[ei], evaluation)
           /\ evaluations' = Append(evaluations, evaluation)
    /\ pc' = "cleanup"
    /\ UNCHANGED <<samples, extractors, ei, si, sample_reports, metric_accumulator,
                   confidences, latencies, report, calls>>
    /\ UNCHANGED metricVars
    /\ UNCHANGED distVars

\* run: extractor.cleanup(), then the for loop moves on
Cleanup ==
    /\ pc = "cleanup"
    /\ calls' = Append(calls, CallEvent("cleanup", ei, 0, TRUE))
    /\ ei' = ei + 1
    /\ pc' = "run_loop"
    /\ UNCHANGED <<samples, extractors, si, sample_reports, metric_accumulator,
                   confidences, latencies, methods, report, evaluations>>
    /\ UNCHANGED metricVars
    /\ UNCHANGED distVars

\* run after the loop: build and return the report
ReturnReport ==
    /\ pc = "run_loop"
    /\ ei > Len(extractors)
    /\ report' = BenchmarkReport(Len(samples), methods)
    /\ pc' = "returned"
    /\ UNCHANGED <<samples, extractors, ei, si, sample_reports, metric_accumulator,
                   confidences, latencies, methods, calls, evaluations>>
    /\ UNCHANGED metricVars
    /\ UNCHANGED distVars

DistancesOff ==
    /\ seq_a = <<>>
    /\ seq_b = <<>>
    /\ seq_c = <<>>
    /\ dpc = "off"
    /\ distances = None

MetricsOff ==
    /\ reference = <<>>
    /\ hypothesis = <<>>
    /\ mpc = "off"
    /\ metrics_out = None

\* BenchmarkRunner(limit_samples(manifest, limit)).run(extractors) is entered
Init ==
    /\ MetricsOff
    /\ DistancesOff
    /\ \E limit \in 0..MaxSamples : samples = limit_samples(Manifest, limit)
    /\ extractors \in SeqsUpTo(ExtractorNames, MaxExtractors)
    /\ pc = "run_loop"
    /\ ei = 1
    /\ si = 1
    /\ sample_reports = <<>>
    /\ metric_accumulator = <<>>
    /\ confidences = <<>>
    /\ latencies = <<>>
    /\ methods = <<>>
    /\ report = None
    /\ calls = <<>>
    /\ evaluations = <<>>

Next ==
    \/ EnterEvaluateMethod
    \/ \E o \in Outcomes : SampleStep(o)
    \/ SampleStepRaises
    \/ ReturnEvaluation
    \/ Cleanup
    \/ ReturnReport

Spec ==
    Init /\ [][Next]_vars

\* ------------------------------------------------------------------------
\* The metric functions on bounded texts
\* ------------------------------------------------------------------------
RunnerOff ==
    /\ samples = <<>>
    /\ extractors = <<>>
    /\ pc = "off"
    /\ ei = 1
    /\ si = 1
    /\ sample_reports = <<>>
    /\ metric_accumulator = <<>>
    /\ confidences = <<>>
    /\ latencies = <<>>
    /\ methods = <<>>
    /\ report = None
    /\ calls = <<>>
    /\ evaluations = <<>>

InitMetrics ==
    /\ RunnerOff
    /\ DistancesOff
    /\ reference \in SeqsUpTo(Alphabet, MaxRefLen)
    /\ hypothesis \in SeqsUpTo(Alphabet, MaxHypLen)
    /\ mpc = "input"
    /\ metrics_out = None

ComputeMetrics ==
    /\ mpc = "input"
    /\ metrics_out' = compute_metrics(reference, hypothesis)
    /\ mpc' = "done"
    /\ UNCHANGED <<reference, hypothesis>>
    /\ UNCHANGED runnerVars
    /\ UNCHANGED distVars

NextMetrics ==
    ComputeMetrics

SpecMetrics ==
    InitMetrics /\ [][NextMetrics]_vars

\* ------------------------------------------------------------------------
\* The edit distance on bounded sequences
\* ------------------------------------------------------------------------
\* The items of the sequences: _levenshtein_distance only compares items for
\* equality, so two distinct items stand for any characters or words.
Items ==
    {"x", "y"}

InitDistances ==
    /\ RunnerOff
    /\ MetricsOff
    /\ seq_a \in SeqsUpTo(Items, MaxSeqLen)
    /\ seq_b \in SeqsUpTo(Items, MaxSeqLen)
    /\ seq_c \in SeqsUpTo(Items, MaxSeqLen)
    /\ dpc = "input"
    /\ distances = None

\* _levenshtein_distance called on the pairs of the three sequences
ComputeDistances ==
    /\ dpc = "input"
    /\ distances' = [ab |-> _levenshtein_distance(seq_a, seq_b),
                     ba |-> _levenshtein_distance(seq_b, seq_a),
                     bc |-> _levenshtein_distance(seq_b, seq_c),
                     ac |-> _levenshtein_distance(seq_a, seq_c)]
    /\ dpc' = "done"
    /\ UNCHANGED <<seq_a, seq_b, seq_c>>
    /\ UNCHANGED metricVars
    /\ UNCHANGED runnerVars

NextDistances ==
    ComputeDistances

SpecDistances ==
    InitDistances /\ [][NextDistances]_vars

\* the items of the pairs of sequences: three distinct ones
PairItems ==
    {"x", "y", "z"}

\* _levenshtein_distance on pairs of sequences: the third sequence is empty
InitDistancePairs ==
    /\ RunnerOff
    /\ MetricsOff
    /\ seq_a \in SeqsUpTo(PairItems, MaxSeqLen)
    /\ seq_b \in SeqsUpTo(PairItems, MaxSeqLen)
    /\ seq_c = <<>>
    /\ dpc = "input"
    /\ distances = None

SpecDistancePairs ==
    InitDistancePairs /\ [][NextDistances]_vars

\* ------------------------------------------------------------------------
\* Properties of BenchmarkRunner.run (checked under Spec)
\* ------------------------------------------------------------------------
\* the positions in the call log of the calls of kind op on extractor e
CallsOf(op, e) ==
    {k \in DOMAIN calls : calls[k].op = op /\ calls[k].e = e}

\* the extractor.run calls of the log, in order
RunCalls ==
    SelectSeq(calls, LAMBDA c : c.op = "run")

\* run is over: it returned a report or an exception left it
Finished ==
    pc \in {"returned", "raised"}

\* evaluate_method was entered for the e-th extractor
Started(e) ==
    \/ e < ei
    \/ e = ei /\ pc \in {"eval_loop", "cleanup", "raised"}

\* C1: in every execution of run, failing or not, each extractor whose
\* evaluation was started gets cleanup() exactly once, after its last run()
\* call and before any run() call on the next extractor.
C1_CleanupExactlyOnce ==
    Finished =>
        \A e \in 1..Len(extractors) :
            Started(e) =>
                /\ Cardinality(CallsOf("cleanup", e)) = 1
                /\ \A k \in CallsOf("cleanup", e) :
                       /\ \A j \in CallsOf("run", e) : j < k
                       /\ \A j \in CallsOf("run", e + 1) : k < j

\* C2: when extractor.run fails on sample j of extractor i the failure leaves
\* run: no SampleEvaluation exists for that sample, no MethodEvaluation for
\* that extractor, no run() call follows and no report is returned.
C2_FailurePropagates ==
    \A k \in DOMAIN calls :
        ~calls[k].ok =>
            /\ pc = "raised"
            /\ report = None
            /\ \A j \in DOMAIN calls : j > k => calls[j].op # "run"
            /\ ei = calls[k].e
            /\ Len(sample_reports) = calls[k].s - 1
            /\ \A r \in 1..Len(sample_reports) :
                   sample_reports[r].sample_id # samples[calls[k].s].id
            /\ Len(evaluations) = calls[k].e - 1

\* a failure with samples and extractors still to come
C2_Witness ==
    /\ pc = "raised"
    /\ calls # <<>>
    /\ ~calls[Len(calls)].ok
    /\ calls[Len(calls)].s < Len(samples)
    /\ calls[Len(calls)].e < Len(extractors)
    /\ report = None

\* C3: a returned report has dataset_size = number of input samples, and every
\* MethodEvaluation in it holds exactly dataset_size SampleEvaluations, the
\* i-th carrying the id and the ground truth of the i-th input sample.
C3_ReportShape ==
    pc = "returned" =>
        /\ report.dataset_size = Len(samples)
        /\ \A name \in DOMAIN report.methods :
               LET rs == report.methods[name].samples
               IN  /\ Len(rs) = report.dataset_size
                   /\ \A i \in 1..Len(rs) :
                          /\ rs[i].sample_id = samples[i].id
                          /\ rs[i].ground_truth = samples[i].ground_truth

\* a report over at least two samples, with a prediction that differs from
\* the ground truth
C3_Witness ==
    /\ pc = "returned"
    /\ Len(samples) >= 2
    /\ \E name \in DOMAIN report.methods :
           /\ Len(report.methods[name].samples) = Len(samples)
           /\ report.methods[name].samples[2].prediction # samples[2].ground_truth

\* C4: with no failing extraction the extractor.run calls are exactly
\* (e_1,s_1),...,(e_1,s_n),(e_2,s_1),...,(e_m,s_n): the log is at every moment
\* a prefix of that sequence, and the whole of it when run returns.
C4_CallOrder ==
    LET n == Len(samples)
        runs == RunCalls
    IN  /\ \A k \in 1..Len(runs) :
               /\ runs[k].e = ((k - 1) \div n) + 1
               /\ runs[k].s = ((k - 1) % n) + 1
        /\ pc = "returned" =>
               /\ Len(runs) = Len(extractors) * n
               /\ \A k \in 1..Len(runs) : runs[k].ok

\* a returned run of at least two extractors over at least two samples
C4_Witness ==
    /\ pc = "returned"
    /\ Len(samples) >= 2
    /\ Len(extractors) >= 2
    /\ Len(RunCalls) = Len(extractors) * Len(samples)

\* v is the arithmetic mean of the non-empty list of floats xs
IsMeanOf(v, xs) ==
    /\ xs # <<>>
    /\ IsFloat(v)
    /\ FMul(v, Rat(Len(xs), 1)) = FSum(xs)

\* C5: every MethodEvaluation, over a sample sequence of any length (the
\* empty one included), has exactly the six metric keys in aggregated_metrics,
\* each the arithmetic mean of that key over the method's SampleEvaluations,
\* and average_latency_seconds the arithmetic mean of the latencies.
C5_AggregatesAreMeans ==
    \A k \in DOMAIN evaluations :
        LET ev == evaluations[k]
            rs == ev.samples
        IN  /\ DOMAIN ev.aggregated_metrics = MetricKeys
            /\ \A key \in MetricKeys :
                   IsMeanOf(ev.aggregated_metrics[key],
                            [i \in 1..Len(rs) |-> rs[i].metrics[key]])
            /\ IsMeanOf(ev.average_latency_seconds,
                        [i \in 1..Len(rs) |-> rs[i].latency_seconds])

\* the sum of the confidences of the records at the positions idx
RECURSIVE ConfidenceSum(_, _)
ConfidenceSum(rs, idx) ==
    IF idx = {} THEN Zero
    ELSE LET i == CHOOSE x \in idx : TRUE
         IN  FAdd(rs[i].confidence, ConfidenceSum(rs, idx \ {i}))

\* C6: average_confidence is None exactly when every sample's confidence is
\* None; otherwise it is the sum of the present confidences divided by their
\* number (None skipped, a present 0.0 counted).
C6_AverageConfidence ==
    \A k \in DOMAIN evaluations :
        LET ev == evaluations[k]
            rs == ev.samples
            present == {i \in 1..Len(rs) : rs[i].confidence # None}
        IN  /\ ev.average_confidence = None <=> present = {}
            /\ present # {} =>
                   /\ IsFloat(ev.average_confidence)
                   /\ FMul(ev.average_confidence, Rat(Cardinality(present), 1))
                          = ConfidenceSum(rs, present)

\* one method averaged over an absent and a present confidence, another over
\* a confidence of 0.0 and one of 1.0
C6_Witness ==
    /\ \E k \in DOMAIN evaluations :
           /\ Len(evaluations[k].samples) = 2
           /\ evaluations[k].samples[1].confidence = None
           /\ evaluations[k].samples[2].confidence = One
           /\ evaluations[k].average_confidence = One
    /\ \E k \in DOMAIN evaluations :
           /\ Len(evaluations[k].samples) = 2
           /\ evaluations[k].samples[1].confidence = Zero
           /\ evaluations[k].samples[2].confidence = One
           /\ evaluations[k].average_confidence = Rat(1, 2)

\* the last position of name in the sequence of extractors
LastIndexOf(name) ==
    CHOOSE i \in 1..Len(extractors) :
        /\ extractors[i] = name
        /\ \A j \in (i + 1)..Len(extractors) : extractors[j] # name

\* C7: extractors that declare the same name raise no error: each is run on
\* every sample and cleaned up, and the returned report has one entry per
\* distinct name, holding the MethodEvaluation of the last extractor of that
\* name.
C7_DuplicateNames ==
    /\ pc = "raised" => (calls # <<>> /\ ~calls[Len(calls)].ok)
    /\ pc = "returned" =>
           /\ DOMAIN report.methods = {extractors[i] : i \in 1..Len(extractors)}
           /\ Len(evaluations) = Len(extractors)
           /\ \A name \in DOMAIN report.methods :
                  report.methods[name] = evaluations[LastIndexOf(name)]
           /\ \A e \in 1..Len(extractors) :
                  /\ \A s \in 1..Len(samples) :
                         \E k \in CallsOf("run", e) : calls[k].s = s /\ calls[k].ok
                  /\ CallsOf("cleanup", e) # {}

\* a returned run of two extractors of one name whose evaluations differ
C7_Witness ==
    /\ pc = "returned"
    /\ Len(extractors) = 2
    /\ extractors[1] = extractors[2]
    /\ Len(samples) >= 1
    /\ evaluations[1] # evaluations[2]
    /\ Cardinality(DOMAIN report.methods) = 1
    /\ report.methods[extractors[1]] = evaluations[2]

\* ------------------------------------------------------------------------
\* Properties of the metric functions (checked under SpecMetrics)
\* ------------------------------------------------------------------------
\* the multiset of the items of a sequence, built one item at a time
RECURSIVE BagOfSeq(_)
BagOfSeq(seq) ==
    IF seq = <<>> THEN EmptyBag ELSE SetToBag({Head(seq)}) (+) BagOfSeq(Tail(seq))

\* the size of the multiset intersection of the token bags: what is left of
\* the first bag after removing what it has beyond the second
BagOverlap(ref_tokens, hyp_tokens) ==
    LET rb == BagOfSeq(ref_tokens)
        hb == BagOfSeq(hyp_tokens)
    IN  BagCardinality(rb (-) (rb (-) hb))

TokenTypes(tokens) ==
    {tokens[i] : i \in 1..Len(tokens)}

\* C8: character_error_rate and word_error_rate are total; with an empty
\* normalized reference the value is 0.0 for an empty normalized hypothesis
\* and 1.0 otherwise; with a non-empty reference it is the edit distance
\* divided by the reference length.
C8_ErrorRates ==
    mpc = "done" =>
        LET ref_chars == normalize_text(reference)
            hyp_chars == normalize_text(hypothesis)
            ref_tokens == _to_word_sequence(reference)
            hyp_tokens == _to_word_sequence(hypothesis)
            cer == metrics_out.character_error_rate
            wer == metrics_out.word_error_rate
        IN  /\ IsFloat(cer) /\ cer.d > 0
            /\ IsFloat(wer) /\ wer.d > 0
            /\ ref_chars = <<>> => cer = (IF hyp_chars = <<>> THEN Zero ELSE One)
            /\ ref_chars # <<>> =>
                   cer.n * Len(ref_chars) = _levenshtein_distance(ref_chars, hyp_chars) * cer.d
            /\ ref_tokens = <<>> => wer = (IF hyp_tokens = <<>> THEN Zero ELSE One)
            /\ ref_tokens # <<>> =>
                   wer.n * Len(ref_tokens) = _levenshtein_distance(ref_tokens, hyp_tokens) * wer.d

\* a reference of two characters against a hypothesis of three, one edit apart
C8_Witness ==
    /\ mpc = "done"
    /\ Len(normalize_text(reference)) = 2
    /\ Len(normalize_text(hypothesis)) = 3
    /\ metrics_out.character_error_rate = Rat(1, 2)
    /\ metrics_out.word_error_rate = One

\* C9: token precision and recall come from the multiset intersection of the
\* token bags: precision = overlap / hypothesis tokens (0.0 for none),
\* recall = overlap / reference tokens (0.0 for none), with
\* 0 <= overlap <= min(reference count, hypothesis count) and both in [0, 1].
C9_TokenOverlap ==
    mpc = "done" =>
        LET ref_tokens == _to_word_sequence(reference)
            hyp_tokens == _to_word_sequence(hypothesis)
            overlap == BagOverlap(ref_tokens, hyp_tokens)
            precision == metrics_out.token_precision
            recall == metrics_out.token_recall
        IN  /\ precision = (IF hyp_tokens = <<>> THEN Zero
                            ELSE Rat(overlap, Len(hyp_tokens)))
            /\ recall = (IF ref_tokens = <<>> THEN Zero
                         ELSE Rat(overlap, Len(ref_tokens)))
            /\ 0 <= overlap
            /\ overlap <= Min2(Len(ref_tokens), Len(hyp_tokens))
            /\ FLeq(Zero, precision) /\ FLeq(precision, One)
            /\ FLeq(Zero, recall) /\ FLeq(recall, One)

\* a token twice in the reference and once in the hypothesis
C9_Witness ==
    /\ mpc = "done"
    /\ LET ref_tokens == _to_word_sequence(reference)
           hyp_tokens == _to_word_sequence(hypothesis)
       IN  /\ Len(ref_tokens) = 2
           /\ ref_tokens[1] = ref_tokens[2]
           /\ hyp_tokens = <<ref_tokens[1]>>
    /\ metrics_out.token_precision = One
    /\ metrics_out.token_recall = Rat(1, 2)

\* C10 as stated: token_f1 is 0.0 when the texts share no token and at least
\* one has a token, and 1.0 whenever their token multisets are identical.
C10_F1Extremes ==
    mpc = "done" =>
        LET ref_tokens == _to_word_sequence(reference)
            hyp_tokens == _to_word_sequence(hypothesis)
        IN  /\ (/\ TokenTypes(ref_tokens) \cap TokenTypes(hyp_tokens) = {}
                /\ (ref_tokens # <<>> \/ hyp_tokens # <<>>))
                   => metrics_out.token_f1 = Zero
            /\ BagOfSeq(ref_tokens) = BagOfSeq(hyp_tokens)
                   => metrics_out.token_f1 = One

\* C10 amended: token_f1 is 0.0 when the texts share no token and at least
\* one has a token, 1.0 when their token multisets are identical and not
\* empty, and 0.0 when neither text has a token.
C10_F1ExtremesNonEmpty ==
    mpc = "done" =>
        LET ref_tokens == _to_word_sequence(reference)
            hyp_tokens == _to_word_sequence(hypothesis)
        IN  /\ (/\ TokenTypes(ref_tokens) \cap TokenTypes(hyp_tokens) = {}
                /\ (ref_tokens # <<>> \/ hyp_tokens # <<>>))
                   => metrics_out.token_f1 = Zero
            /\ (/\ BagOfSeq(ref_tokens) = BagOfSeq(hyp_tokens)
                /\ ref_tokens # <<>>)
                   => metrics_out.token_f1 = One
            /\ (ref_tokens = <<>> /\ hyp_tokens = <<>>)
                   => metrics_out.token_f1 = Zero

\* the same two tokens in the opposite order
C10_Witness ==
    /\ mpc = "done"
    /\ LET ref_tokens == _to_word_sequence(reference)
           hyp_tokens == _to_word_sequence(hypothesis)
       IN  /\ Len(ref_tokens) = 2
           /\ ref_tokens # hyp_tokens
           /\ BagOfSeq(ref_tokens) = BagOfSeq(hyp_tokens)
    /\ metrics_out.token_f1 = One

\* ------------------------------------------------------------------------
\* Properties of the edit distance (checked under SpecDistances)
\* ------------------------------------------------------------------------
\* C11: the edit distance is symmetric, distance(a, b) = distance(b, a), and
\* satisfies the triangle inequality,
\* distance(a, c) <= distance(a, b) + distance(b, c).
C11_DistanceIsMetric ==
    dpc = "done" =>
        /\ distances.ab = distances.ba
        /\ distances.ac <= distances.ab + distances.bc

\* three different non-empty sequences of different lengths for which the
\* triangle inequality is tight
C11_Witness ==
    /\ dpc = "done"
    /\ seq_a # <<>> /\ seq_b # <<>> /\ seq_c # <<>>
    /\ Len(seq_a) > Len(seq_b)
    /\ Len(seq_b) < Len(seq_c)
    /\ distances.ab >= 2
    /\ distances.bc >= 2
    /\ distances.ab = distances.ba
    /\ distances.ac = distances.ab + distances.bc

\* the least number of a non-empty finite set of numbers
LeastOf(S) ==
    CHOOSE m \in S : \A x \in S : m <= x

\* The Levenshtein distance by its defining recursion: the least number of
\* unit-cost insertions, deletions and substitutions that turn a into b.
RECURSIVE EditDistance(_, _)
EditDistance(a, b) ==
    IF a = <<>> THEN Len(b)
    ELSE IF b = <<>> THEN Len(a)
    ELSE LeastOf({EditDistance(Tail(a), b) + 1,
                  EditDistance(a, Tail(b)) + 1,
                  EditDistance(Tail(a), Tail(b)) + (IF Head(a) = Head(b) THEN 0 ELSE 1)})

\* the rolling-row dynamic program run without any fast path
FullRecurrence(a, b) ==
    LET last_row == OuterLoop([j \in 1..(Len(b) + 1) |-> j - 1], a, 1, b)
    IN  last_row[Len(last_row)]

\* C12: _levenshtein_distance (fast paths plus the rolling-row dynamic
\* program) returns the least number of unit-cost insertions, deletions and
\* substitutions that turn the reference into the hypothesis, and on the
\* inputs of the three fast paths it returns what the dynamic program run in
\* full returns.
C12_DistanceIsLevenshtein ==
    dpc = "done" =>
        /\ distances.ab = EditDistance(seq_a, seq_b)
        /\ (seq_a = seq_b \/ seq_a = <<>> \/ seq_b = <<>>)
               => distances.ab = FullRecurrence(seq_a, seq_b)

\* two different non-empty sequences of different lengths, neither a fast
\* path, two edits apart
C12_Witness ==
    /\ dpc = "done"
    /\ Len(seq_a) = 4
    /\ Len(seq_b) = 3
    /\ seq_a[1] # seq_b[1]
    /\ distances.ab = 2
    /\ distances.ab = EditDistance(seq_a, seq_b)

\* ------------------------------------------------------------------------
\* Consistency of the metrics of compute_metrics (checked under SpecMetrics)
\* ------------------------------------------------------------------------
\* C13: for every reference / hypothesis pair exact_match = 1.0 if and only
\* if character_error_rate = 0.0, if and only if word_error_rate = 0.0.
C13_PerfectMatchConsistent ==
    mpc = "done" =>
        /\ metrics_out.exact_match = One <=> metrics_out.character_error_rate = Zero
        /\ metrics_out.character_error_rate = Zero <=> metrics_out.word_error_rate = Zero
        /\ metrics_out.exact_match \in {Zero, One}

\* two texts that differ as given (case, spacing) and match once normalized
C13_Witness ==
    /\ mpc = "done"
    /\ reference # hypothesis
    /\ Len(_to_word_sequence(reference)) = 2
    /\ metrics_out.exact_match = One
    /\ metrics_out.character_error_rate = Zero
    /\ metrics_out.word_error_rate = Zero

====
